---------------------------- MODULE Spec2Model ----------------------------
(* A state-machine model of the CEEB-to-NCES crosswalk build notebook      *)
(* (src/hs_crosswalk_build_v2.ipynb): the cells of the notebook are the     *)
(* actions, the dataframes and lists of the notebook are the variables.     *)
(* Strings are sequences of one-character strings, so that substring        *)
(* removal, prefix truncation and the similarity ratio are computed as the  *)
(* code computes them. A dataframe is a sequence of records (row order is   *)
(* kept, as pandas keeps it).                                               *)
EXTENDS Integers, Sequences, FiniteSets, TLC

(***************************************************************************)
(* Null values. pandas' NaN / Python's None in a string column is the      *)
(* one-element sequence NaN (no real string: real strings are sequences of *)
(* single characters); in a score column it is NoScore; in the             *)
(* MATCH_SOURCE column it is NoSource; in HS_DUPED it is "nan".            *)
(***************************************************************************)
NaN == <<"NaN">>
NoScore == 0 - 1
NoSource == 0 - 9

\* the answer "NA" (no identifier found)
NA == <<"N","A">>

(***************************************************************************)
(* Generic sequence helpers                                                *)
(***************************************************************************)
Range(s) == {s[k] : k \in 1..Len(s)}

MaxOf(S) == CHOOSE m \in S : \A x \in S : x <= m

\* all sequences without repetition over S, of length at most n
RECURSIVE InjSeqs(_, _)
InjSeqs(S, n) ==
    IF n = 0 THEN {<<>>}
    ELSE LET shorter == InjSeqs(S, n - 1)
         IN  shorter \cup
             {Append(pr[1], pr[2]) :
                 pr \in {q \in shorter \X S : q[2] \notin Range(q[1])}}

(***************************************************************************)
(* Strings                                                                 *)
(***************************************************************************)
HighSchoolTok == <<"h","i","g","h"," ","s","c","h","o","o","l">>
SchoolTok == <<"s","c","h","o","o","l">>
AcademyTok == <<"a","c","a","d","e","m","y">>

\* str.lower(), for the letters of the model's alphabet
LowerChar(c) ==
    CASE c = "A" -> "a"
      [] c = "B" -> "b"
      [] c = "C" -> "c"
      [] c = "D" -> "d"
      [] c = "S" -> "s"
      [] c = "H" -> "h"
      [] c = "E" -> "e"
      [] c = "G" -> "g"
      [] c = "I" -> "i"
      [] c = "N" -> "n"
      [] c = "R" -> "r"
      [] OTHER -> c

Lower(s) == [k \in 1..Len(s) |-> LowerChar(s[k])]

\* str.replace(tok, ''): non-overlapping occurrences, scanned left to right
RECURSIVE Remove(_, _)
Remove(s, tok) ==
    IF Len(s) < Len(tok) THEN s
    ELSE IF SubSeq(s, 1, Len(tok)) = tok
         THEN Remove(SubSeq(s, Len(tok) + 1, Len(s)), tok)
         ELSE <<Head(s)>> \o Remove(Tail(s), tok)

\* str.strip(): leading and trailing blanks
RECURSIVE LStrip(_)
LStrip(s) == IF s # <<>> /\ Head(s) = " " THEN LStrip(Tail(s)) ELSE s

RECURSIVE RStrip(_)
RStrip(s) ==
    IF s # <<>> /\ s[Len(s)] = " " THEN RStrip(SubSeq(s, 1, Len(s) - 1)) ELSE s

Strip(s) == RStrip(LStrip(s))

\* name_clean(name), defined on strings; on NaN the code raises AttributeError
name_clean(name) ==
    Strip(Remove(Remove(Remove(Lower(name), HighSchoolTok), SchoolTok), AcademyTok))

(***************************************************************************)
(* Cleaning of a worker's answer (cell 13)                                 *)
(***************************************************************************)
MarkerTok == <<"N","C","E","S"," ","S","c","h","o","o","l"," ","I","D",":"," ">>
GradeTok == <<"g","r","a","d","e">>

\* tok in s
RECURSIVE Contains(_, _)
Contains(s, tok) ==
    IF Len(s) < Len(tok) THEN FALSE
    ELSE IF SubSeq(s, 1, Len(tok)) = tok THEN TRUE
    ELSE Contains(Tail(s), tok)

\* s.split(tok)[-1]: what follows the last occurrence of tok (s when there is none)
RECURSIVE SplitLast(_, _)
SplitLast(s, tok) ==
    IF ~Contains(s, tok) THEN s
    ELSE IF SubSeq(s, 1, Len(tok)) = tok
         THEN SplitLast(SubSeq(s, Len(tok) + 1, Len(s)), tok)
         ELSE SplitLast(Tail(s), tok)

\* str(x): a missing answer (NaN, a float) prints as 'nan'
Str(x) == IF x = NaN THEN <<"n","a","n">> ELSE x

\* resp_clean(x)
resp_clean(raw) ==
    LET x == Str(raw)
    IN  IF Contains(x, MarkerTok) THEN SplitLast(x, MarkerTok)
        ELSE IF Contains(x, <<" ">>) THEN NA
        ELSE IF Contains(Lower(x), GradeTok) THEN NA
        ELSE x

(***************************************************************************)
(* fuzz.ratio with the pure-python SequenceMatcher (the notebook's output  *)
(* records that fuzzywuzzy fell back to difflib): 2*M/T scaled to 0..100,  *)
(* M the total size of the matching blocks that difflib finds by taking    *)
(* the longest common block (earliest in the first string, then earliest   *)
(* in the second) and recursing to its left and to its right.              *)
(***************************************************************************)
\* length of the common run of a from i and b from j, inside a[..ahi], b[..bhi]
RECURSIVE RunLen(_, _, _, _, _, _)
RunLen(a, b, x, y, ahi, bhi) ==
    IF x > ahi \/ y > bhi \/ a[x] # b[y] THEN 0
    ELSE 1 + RunLen(a, b, x + 1, y + 1, ahi, bhi)

\* find_longest_match over a[alo..ahi], b[blo..bhi] (1-based, inclusive)
find_longest_match(a, b, alo, ahi, blo, bhi) ==
    LET lens == {RunLen(a, b, x, y, ahi, bhi) : x \in alo..ahi, y \in blo..bhi}
        k    == IF lens = {} THEN 0 ELSE MaxOf(lens)
        xs   == {x \in alo..ahi : \E y \in blo..bhi : RunLen(a, b, x, y, ahi, bhi) = k}
        bx   == CHOOSE x \in xs : \A z \in xs : x <= z
        ys   == {y \in blo..bhi : RunLen(a, b, bx, y, ahi, bhi) = k}
        by   == CHOOSE y \in ys : \A z \in ys : y <= z
    IN  IF k = 0 THEN <<alo, blo, 0>> ELSE <<bx, by, k>>

\* sum of the sizes of get_matching_blocks()
RECURSIVE MatchSize(_, _, _, _, _, _)
MatchSize(a, b, alo, ahi, blo, bhi) ==
    IF alo > ahi \/ blo > bhi THEN 0
    ELSE LET m == find_longest_match(a, b, alo, ahi, blo, bhi)
         IN  IF m[3] = 0 THEN 0
             ELSE m[3] + MatchSize(a, b, alo, m[1] - 1, blo, m[2] - 1)
                       + MatchSize(a, b, m[1] + m[3], ahi, m[2] + m[3], bhi)

\* int(round(100 * 2.0*M/T)), Python 3 rounding (halves go to the even integer)
intr(num, den) ==
    LET q == num \div den
        r == num % den
    IN  IF 2 * r > den THEN q + 1
        ELSE IF 2 * r < den THEN q
        ELSE IF q % 2 = 0 THEN q ELSE q + 1

\* fuzz.ratio(s1, s2): 100 for equal strings, 0 when either is empty
fuzz_ratio(s1, s2) ==
    IF s1 = s2 THEN 100
    ELSE IF Len(s1) = 0 \/ Len(s2) = 0 THEN 0
    ELSE intr(200 * MatchSize(s1, s2, 1, Len(s1), 1, Len(s2)), Len(s1) + Len(s2))

(***************************************************************************)
(* Inputs: the records, base rows, candidates and worker responses that    *)
(* the runs of the model are drawn from                                    *)
(***************************************************************************)
MaxRestarts == 1    \* most interruptions of cell 8 in a run
DumpEvery == 2      \* passes between two dumps (50 in cell 8), scaled to the pools
MaxRecs == 3        \* most records of hs_df

Z1 == <<"8","0","3","0","1">>
Z1Long == <<"8","0","3","0","1","7">>
Z2 == <<"0","2","1","3","9">>
Z3 == <<"9","9","5","0","1">>
Z9 == <<"1","0","0","0","1">>
\* a postal code that no candidate of source A or source B has
Z4 == <<"9","0","2","1","0">>

NameAba == <<"a","b","a">>
NameAbaSchool == <<"A","b","a"," ","S","c","h","o","o","l">>
NameAbaAcademy == <<"a","b","a"," ","a","c","a","d","e","m","y">>
NameBabba == <<"b","a","b","b","a">>
NameH70 == <<"a","a","a","a","a","a","a","b","b","b","b","b","b">>
NameM70 == <<"a","a","a","a","a","a","a">>
NameCc == <<"c","c">>
NameCC == <<"C","C">>
NameDd == <<"d","d">>
NameDe == <<"d","e">>

Nces(d) == <<d>>

HsPool ==
    { [HS_CEEB |-> 1, HS_NAME |-> NameAbaSchool, HS_POSTAL_CD |-> Z1],
      [HS_CEEB |-> 1, HS_NAME |-> NameH70,       HS_POSTAL_CD |-> Z1],
      [HS_CEEB |-> 2, HS_NAME |-> NameBabba,     HS_POSTAL_CD |-> Z1Long],
      [HS_CEEB |-> 3, HS_NAME |-> NaN,           HS_POSTAL_CD |-> Z2],
      [HS_CEEB |-> 5, HS_NAME |-> NameCc,        HS_POSTAL_CD |-> Z3],
      [HS_CEEB |-> 5, HS_NAME |-> NameDd,        HS_POSTAL_CD |-> Z3],
      [HS_CEEB |-> 7, HS_NAME |-> NameDe,        HS_POSTAL_CD |-> Z4] }

\* hs_df: distinct records (the file was de-duplicated), idx is the frame's index
HsFrames ==
    {[k \in 1..Len(q) |-> [idx |-> k, HS_CEEB |-> q[k].HS_CEEB,
                           HS_NAME |-> q[k].HS_NAME,
                           HS_POSTAL_CD |-> q[k].HS_POSTAL_CD]] :
        q \in InjSeqs(HsPool, MaxRecs)}

DavRow(ceeb, nces, name, zip) ==
    [HS_CEEB |-> ceeb, HS_NCES |-> nces, MATCH_NAME |-> name, HS_POSTAL_CD |-> zip]

\* the Davenport table: a row without NCES for CEEB 2, a row without CEEB (0),
\* two NCES for CEEB 3, a row for CEEB 5 under the name "dd"
DavTables ==
    { <<>>,
      <<DavRow(2, NaN, NameBabba, Z1), DavRow(0, Nces("9"), NameCc, Z3)>>,
      <<DavRow(3, Nces("3"), NameDd, Z2), DavRow(3, Nces("4"), NameDe, Z2),
        DavRow(5, Nces("5"), NameDd, Z3)>>,
      <<DavRow(2, NaN, NameBabba, Z1),
        DavRow(3, Nces("3"), NameDd, Z2), DavRow(3, Nces("4"), NameDe, Z2)>> }

PssRow(ppin, pinst, pzip, plzip) ==
    [PPIN |-> ppin, PINST |-> pinst, PZIP |-> pzip, PL_ZIP |-> plzip]

PssTables ==
    { <<PssRow(Nces("a"), NameAba, Z1, Z1), PssRow(Nces("b"), NameAbaAcademy, Z9, Z1),
        PssRow(Nces("c"), NameM70, Z1, Z1), PssRow(Nces("d"), NameDd, Z2, Z2),
        PssRow(Nces("e"), NameCC, Z9, Z3)>>,
      <<PssRow(Nces("c"), NameM70, Z1, Z1), PssRow(Nces("d"), NameDd, Z2, Z2)>> }

CcdRow(id, name, zm, zl) ==
    [ncessch |-> id, school_name |-> name, zip_mailing |-> zm, zip_location |-> zl]

CcdDirectory ==
    <<CcdRow(Nces("p"), NameCC, Z3, Z3), CcdRow(Nces("q"), NameAba, Z2, Z1),
      CcdRow(Nces("r"), NameDd, Z9, Z3), CcdRow(Nces("s"), NameDd, Z3, Z9)>>

Resp(w, ceeb, name, answer) ==
    [WorkerId |-> w, HS_CEEB |-> ceeb, HS_NAME |-> name, Answer |-> answer]

\* approved worker responses (raw answers), rows in file order
MturkTables ==
    { <<Resp(1, 5, NameCc, Nces("5")), Resp(2, 5, NameCc, Nces("5")),
        Resp(3, 5, NameCc, NA),        Resp(4, 5, NameCc, Nces("5")),
        Resp(1, 7, NameDe, Nces("1")), Resp(2, 7, NameDe, Nces("1")),
        Resp(3, 7, NameDe, NA),        Resp(4, 7, NameDe, MarkerTok \o Nces("1")),
        Resp(1, 2, NameBabba, NaN),    Resp(2, 2, NameBabba, NaN),
        Resp(3, 2, NameBabba, Nces("7"))>>,
      <<Resp(3, 5, NameCc, Nces("5")), Resp(1, 5, NameCc, Nces("6")),
        Resp(2, 5, NameCc, NA),        Resp(4, 5, NameCc, Nces("5")),
        Resp(5, 5, NameCc, Nces("5")),
        Resp(1, 2, NameBabba, Nces("7")), Resp(2, 2, NameBabba, Nces("7")),
        Resp(1, 1, NameH70, Nces("8"))>> }


(***************************************************************************)
(* The scores of the names of the inputs                                   *)
(***************************************************************************)
\* every name that occurs in the inputs
AllNames ==
    {h.HS_NAME : h \in HsPool}
        \cup UNION {{c.PINST : c \in Range(t)} : t \in PssTables}
        \cup UNION {{d.MATCH_NAME : d \in Range(t)} : t \in DavTables}
        \cup UNION {{r.HS_NAME : r \in Range(t)} : t \in MturkTables}
        \cup {c.school_name : c \in Range(CcdDirectory)}

\* fuzz.ratio(name_clean(n1), name_clean(n2)) for all pairs of names, computed once
ScoreTable ==
    [n1 \in AllNames |-> [n2 \in AllNames |-> fuzz_ratio(name_clean(n1), name_clean(n2))]]

\* hs_name_match_score(name1, name2), defined on strings
hs_name_match_score(name1, name2) == ScoreTable[name1][name2]


(***************************************************************************)
(* Dataframe helpers                                                       *)
(***************************************************************************)
RECURSIVE Flatten(_)
Flatten(ss) == IF ss = <<>> THEN <<>> ELSE Head(ss) \o Flatten(Tail(ss))

\* DataFrame.drop_duplicates(): whole rows, the first occurrence is kept
RECURSIVE DropDuplicates(_)
DropDuplicates(t) ==
    IF t = <<>> THEN <<>>
    ELSE LET front == DropDuplicates(SubSeq(t, 1, Len(t) - 1))
             last  == t[Len(t)]
         IN  IF last \in Range(front) THEN front ELSE Append(front, last)

\* DataFrame.drop_duplicates(subset=['HS_CEEB','HS_NCES'])
RECURSIVE DropDuplicatesCeebNces(_)
DropDuplicatesCeebNces(t) ==
    IF t = <<>> THEN <<>>
    ELSE LET front == DropDuplicatesCeebNces(SubSeq(t, 1, Len(t) - 1))
             last  == t[Len(t)]
         IN  IF \E r \in Range(front) :
                    r.HS_CEEB = last.HS_CEEB /\ r.HS_NCES = last.HS_NCES
             THEN front ELSE Append(front, last)

\* set(table.HS_CEEB)
CeebSet(t) == {r.HS_CEEB : r \in Range(t)}

\* variant: no record leaves the pool
OutstandingAll(hs, table) == hs

\* variant: the membership test without its negation
OutstandingInverted(hs, table) ==
    LET matched_ceebs == CeebSet(table)
    IN  SelectSeq(hs, LAMBDA h : h.HS_CEEB \in matched_ceebs)

\* hs_df.loc[[_ not in matched_ceebs for _ in hs_df.HS_CEEB]]
Outstanding(hs, table) ==
    LET matched_ceebs == CeebSet(table)
    IN  SelectSeq(hs, LAMBDA h : h.HS_CEEB \notin matched_ceebs)

\* a row of the running crosswalk table ucb_cross
CrossRow(ceeb, nces, mname, zip, hname, score) ==
    [HS_CEEB |-> ceeb, HS_NCES |-> nces, MATCH_NAME |-> mname,
     HS_POSTAL_CD |-> zip, HS_NAME |-> hname, MATCH_SCORE |-> score,
     MATCH_SOURCE |-> NoSource, HS_DUPED |-> "nan"]

\* a row of a match-stage result list (ret_row)
RetRow(hname, ceeb, nces, mname, score) ==
    [HS_NAME |-> hname, HS_CEEB |-> ceeb, HS_NCES |-> nces,
     MATCH_NAME |-> mname, MATCH_SCORE |-> score]

\* pool.merge(matches[['HS_CEEB','HS_NCES','MATCH_NAME','MATCH_SCORE']], on='HS_CEEB')
MergeOnCeeb(pool, matches) ==
    Flatten([k \in 1..Len(pool) |->
        LET h  == pool[k]
            ms == SelectSeq(matches, LAMBDA m : m.HS_CEEB = h.HS_CEEB)
        IN  [j \in 1..Len(ms) |->
                CrossRow(h.HS_CEEB, ms[j].HS_NCES, ms[j].MATCH_NAME,
                         h.HS_POSTAL_CD, h.HS_NAME, ms[j].MATCH_SCORE)]])

\* variant: the UNMATCHED results are not dropped
DropNaKeepAll(matches) == matches

\* DataFrame(matches).replace('None', np.nan).dropna()
DropNa(matches) ==
    SelectSeq(matches, LAMBDA m : /\ m.HS_NAME # NaN
                                  /\ m.HS_NCES # NaN
                                  /\ m.MATCH_NAME # NaN
                                  /\ m.MATCH_SCORE # NoScore)


(***************************************************************************)
(* Match stage (cells 5 and 7): blocking, scoring, threshold               *)
(***************************************************************************)
match_cutoff == 70

\* variant: the cutoff itself is accepted
AcceptsAtCutoff(best) == best >= match_cutoff

\* np.max(scores) > match_cutoff
Accepts(best) == best > match_cutoff

\* variant: the last index that holds the maximum
ArgMaxLast(scores) ==
    CHOOSE k \in 1..Len(scores) :
        /\ \A j \in 1..Len(scores) : scores[j] <= scores[k]
        /\ \A j \in (k + 1)..Len(scores) : scores[j] < scores[k]

\* np.argmax(scores): the first index that holds the maximum
ArgMax(scores) ==
    CHOOSE k \in 1..Len(scores) :
        /\ \A j \in 1..Len(scores) : scores[j] <= scores[k]
        /\ \A j \in 1..(k - 1) : scores[j] < scores[k]

\* variant: only the mailing code is compared
zip_match_mailing(pss, zip) == SelectSeq(pss, LAMBDA c : zip # NaN /\ c.PZIP = zip)

\* (pss_df.PZIP == zip) | (pss_df.PL_ZIP == zip); a comparison with NaN is False
zip_match(pss, zip) ==
    SelectSeq(pss, LAMBDA c : zip # NaN /\ (c.PZIP = zip \/ c.PL_ZIP = zip))

\* ccd_directory_zip_lookup: the rows found by mailing code, then by location code
ccd_directory_zip_lookup(dir, zip) ==
    SelectSeq(dir, LAMBDA c : c.zip_mailing = zip)
        \o SelectSeq(dir, LAMBDA c : c.zip_location = zip)

\* name_clean raises on a value that is no string (NaN is a float)
ScoringRaises(hname, cnames) ==
    cnames # <<>> /\ (hname = NaN \/ \E k \in 1..Len(cnames) : cnames[k] = NaN)

\* [hs_name_match_score(_, row.HS_NAME) for _ in candidates]
Scores(hname, cnames) ==
    [k \in 1..Len(cnames) |-> hs_name_match_score(cnames[k], hname)]

Unmatched(row) == RetRow(row.HS_NAME, row.HS_CEEB, NaN, NaN, NoScore)

\* the ret_row built for a record from the ids and names of its candidate block
\* (not empty, all names strings)
BestMatch(row, ids, cnames) ==
    LET scores == Scores(row.HS_NAME, cnames)
        best   == ArgMax(scores)
    IN  IF Accepts(scores[best])
        THEN RetRow(row.HS_NAME, row.HS_CEEB, ids[best], cnames[best], scores[best])
        ELSE Unmatched(row)

\* str(_)[:5], and 'nan' replaced by NaN
PostalPrefix(zip) ==
    IF zip = NaN THEN NaN
    ELSE IF Len(zip) <= 5 THEN zip ELSE SubSeq(zip, 1, 5)

(***************************************************************************)
(* Quality check (cell 10)                                                 *)
(***************************************************************************)
\* name_check_score(n1, n2)
name_check_score(n1, n2) ==
    IF n1 = NaN \/ n2 = NaN THEN NoScore ELSE hs_name_match_score(n1, n2)

\* src_check(ceeb), over davenport_ceebs, pss_ceebs, ccd_ceebs
src_check(ceeb, davenport_ceebs, pss_ceebs, ccd_ceebs) ==
    IF ceeb \in davenport_ceebs THEN 0
    ELSE IF ceeb \in pss_ceebs THEN 1
    ELSE IF ceeb \in ccd_ceebs THEN 2
    ELSE 0 - 1

\* ceeb_cts.HS_NAME > 1: groupby('HS_CEEB').count() counts the non-null HS_NAME
ceeb_dupes(table) ==
    {c \in CeebSet(table) :
        Cardinality({k \in 1..Len(table) :
            table[k].HS_CEEB = c /\ table[k].HS_NAME # NaN}) > 1}

(***************************************************************************)
(* Crowd aggregation (cell 13)                                             *)
(***************************************************************************)
max_width == 4

\* x.value_counts(): the number of votes of each value of a vote list
value_counts(x) ==
    [v \in Range(x) |-> Cardinality({k \in 1..Len(x) : x[k] = v})]

\* resp_agg(x), for a list x of at least one non-null vote
resp_agg(x) ==
    LET votes == value_counts(x)
        top   == MaxOf({votes[v] : v \in DOMAIN votes})
    IN  IF 2 * top > Len(x)
        THEN CHOOSE v \in DOMAIN votes : votes[v] = top
        ELSE NA

\* the first max_width entries of a pivot row: zip(range(max_width), row)
resp_row(row) == IF Len(row) <= max_width THEN row ELSE SubSeq(row, 1, max_width)


RECURSIVE Sorted(_)
Sorted(S) ==
    IF S = {} THEN <<>>
    ELSE LET m == CHOOSE x \in S : \A y \in S : x <= y
         IN  <<m>> \o Sorted(S \ {m})

\* a row of resps_pivot: the non-null answers for one CEEB, in WorkerId column order
pivot_row(res, ceeb) ==
    LET ws == Sorted({r.WorkerId : r \in {q \in Range(res) : q.HS_CEEB = ceeb}})
    IN  [k \in 1..Len(ws) |->
            (CHOOSE r \in Range(res) : r.HS_CEEB = ceeb /\ r.WorkerId = ws[k]).Answer]

\* resps_full['Answer'] = resps_full.Answer.apply(resp_clean)
resps_full(res) ==
    [k \in 1..Len(res) |-> [res[k] EXCEPT !.Answer = resp_clean(res[k].Answer)]]

\* resps[['HS_NAME','HS_CEEB','HS_NCES']]: one consensus per CEEB (index order),
\* joined with the distinct (HS_CEEB, HS_NAME) pairs of the responses
mturk_crosswalk(res) ==
    LET ceebs == Sorted(CeebSet(res))
        name_ceeb_df ==
            DropDuplicates([k \in 1..Len(res) |->
                [HS_CEEB |-> res[k].HS_CEEB, HS_NAME |-> res[k].HS_NAME]])
    IN  Flatten([k \in 1..Len(ceebs) |->
            LET nces  == resp_agg(resp_row(pivot_row(res, ceebs[k])))
                names == SelectSeq(name_ceeb_df, LAMBDA n : n.HS_CEEB = ceebs[k])
            IN  [j \in 1..Len(names) |->
                    [HS_NAME |-> names[j].HS_NAME, HS_CEEB |-> ceebs[k],
                     HS_NCES |-> nces]]])

\* variant: every consensus answer gives a row, in the pool or not
MergeCrowdAnswers(pool, answers) ==
    [j \in 1..Len(answers) |->
        CrossRow(answers[j].HS_CEEB, answers[j].HS_NCES, answers[j].HS_NAME,
                 NaN, answers[j].HS_NAME, NoScore)]

\* hs_df_outstanding.merge(mturk_cross.rename(HS_NAME -> MATCH_NAME), on='HS_CEEB')
MergeCrowd(pool, answers) ==
    Flatten([k \in 1..Len(pool) |->
        LET h  == pool[k]
            ms == SelectSeq(answers, LAMBDA m : m.HS_CEEB = h.HS_CEEB)
        IN  [j \in 1..Len(ms) |->
                CrossRow(h.HS_CEEB, ms[j].HS_NCES, ms[j].HS_NAME,
                         h.HS_POSTAL_CD, h.HS_NAME, NoScore)]])

(***************************************************************************)
(* State: the notebook's frames and lists, and the cell that runs next     *)
(***************************************************************************)
VARIABLES
    hs_df,                      \* the input records (cell 1)
    ccd_matches_inprog,         \* the list last dumped to ccd_matches_inprog.p
    lookups,                    \* records sent to the remote directory, in order
    restarts,                   \* times cell 8 was interrupted and run again
    davenport_cross,            \* the trusted base table, as loaded (cell 2)
    pss_df,                     \* source A candidates (cell 3)
    results,                    \* approved worker responses (cell 13)
    ucb_cross,                  \* the running crosswalk table
    hs_df_less_davenport,       \* pool after the base stage
    pss_matches,                \* result list of the source-A loop
    ret_row,                    \* <<>> while unbound, else <<the last ret_row>>
    pss_cross,                  \* rows folded in from source A
    hs_df_less_davenport_pss,   \* pool after source A
    ccd_matches,                \* result list of the source-B loop
    ccd_cross,                  \* rows folded in from source B
    hs_df_outstanding,          \* pool after source B, and after the crowd fold
    mturk_cross,                \* consensus answers, then the rows folded in
    pc,                         \* the cell (or loop) that runs next
    i,                          \* loop index of the running match loop
    args,                       \* arguments of a function called on its own
    ret                         \* the values such calls returned, in order

vars == <<hs_df, davenport_cross, pss_df, results, ucb_cross, hs_df_less_davenport,
          pss_matches, ret_row, pss_cross, hs_df_less_davenport_pss, ccd_matches,
          ccd_cross, hs_df_outstanding, mturk_cross, pc, i, args, ret,
          ccd_matches_inprog, lookups, restarts>>

inputs == <<hs_df, davenport_cross, pss_df, results>>

calls == <<args, ret>>

cache == <<ccd_matches_inprog, lookups, restarts>>

Init ==
    /\ hs_df \in HsFrames
    /\ davenport_cross \in DavTables
    /\ pss_df \in PssTables
    /\ results \in MturkTables
    /\ ucb_cross = <<>>
    /\ hs_df_less_davenport = <<>>
    /\ pss_matches = <<>>
    /\ ret_row = <<>>
    /\ pss_cross = <<>>
    /\ hs_df_less_davenport_pss = <<>>
    /\ ccd_matches = <<>>
    /\ ccd_cross = <<>>
    /\ hs_df_outstanding = <<>>
    /\ mturk_cross = <<>>
    /\ ccd_matches_inprog = <<>>
    /\ lookups = <<>>
    /\ restarts = 0
    /\ pc = "cell2"
    /\ i = 1
    /\ args = <<>>
    /\ ret = <<>>

\* davenport_cross[...].dropna(subset=['HS_NCES','HS_CEEB']); a missing CEEB is 0
base_filter(dav) == SelectSeq(dav, LAMBDA d : d.HS_NCES # NaN /\ d.HS_CEEB # 0)

\* ucb_cross.merge(hs_df[['HS_CEEB','HS_NAME']], on='HS_CEEB', how='left')
base_merge(base, hs) ==
    Flatten([k \in 1..Len(base) |->
        LET d  == base[k]
            ms == SelectSeq(hs, LAMBDA h : h.HS_CEEB = d.HS_CEEB)
        IN  IF ms = <<>>
            THEN <<CrossRow(d.HS_CEEB, d.HS_NCES, d.MATCH_NAME, d.HS_POSTAL_CD,
                            NaN, NoScore)>>
            ELSE [j \in 1..Len(ms) |->
                    CrossRow(d.HS_CEEB, d.HS_NCES, d.MATCH_NAME, d.HS_POSTAL_CD,
                             ms[j].HS_NAME, NoScore)]])

\* cell 2: the base stage
BaseMerge ==
    /\ pc = "cell2"
    /\ ucb_cross' = base_merge(base_filter(davenport_cross), hs_df)
    /\ hs_df_less_davenport' = Outstanding(hs_df, ucb_cross')
    /\ pc' = "cell4"
    /\ UNCHANGED <<inputs, calls, cache, pss_matches, ret_row, pss_cross, hs_df_less_davenport_pss,
                   ccd_matches, ccd_cross, hs_df_outstanding, mturk_cross, i>>

\* cell 4: the postal codes of the pool are cut to their first 5 characters
PostalTruncate ==
    /\ pc = "cell4"
    /\ hs_df_less_davenport' =
          [k \in 1..Len(hs_df_less_davenport) |->
              [hs_df_less_davenport[k] EXCEPT
                  !.HS_POSTAL_CD = PostalPrefix(hs_df_less_davenport[k].HS_POSTAL_CD)]]
    /\ pc' = "pss_loop"
    /\ i' = 1
    /\ UNCHANGED <<inputs, calls, cache, ucb_cross, pss_matches, ret_row, pss_cross,
                   hs_df_less_davenport_pss, ccd_matches, ccd_cross,
                   hs_df_outstanding, mturk_cross>>

\* cell 5, one pass of the loop body for record i. The scores are computed
\* before the try block: a name that cannot be scored ends the cell.
PssIter ==
    /\ pc = "pss_loop"
    /\ i <= Len(hs_df_less_davenport)
    /\ LET row    == hs_df_less_davenport[i]
           block  == zip_match(pss_df, row.HS_POSTAL_CD)
           cnames == [k \in 1..Len(block) |-> block[k].PINST]
           ids    == [k \in 1..Len(block) |-> block[k].PPIN]
       IN  IF ScoringRaises(row.HS_NAME, cnames)
           THEN /\ pc' = "aborted"
                /\ UNCHANGED <<ret_row, pss_matches, i>>
           ELSE /\ pc' = pc
                /\ i' = i + 1
                /\ IF block = <<>>
                   THEN /\ ret_row' = <<Unmatched(row)>>
                        /\ UNCHANGED pss_matches
                   ELSE LET r == BestMatch(row, ids, cnames)
                        IN  /\ ret_row' = <<r>>
                            /\ pss_matches' =
                                  IF r.HS_NCES # NaN THEN Append(pss_matches, r)
                                  ELSE pss_matches
    /\ UNCHANGED <<inputs, calls, cache, ucb_cross, hs_df_less_davenport, pss_cross,
                   hs_df_less_davenport_pss, ccd_matches, ccd_cross,
                   hs_df_outstanding, mturk_cross>>

\* cell 5, the statement after the loop: pss_matches.append(ret_row).
\* With no record in the pool ret_row is unbound and the cell ends.
PssAfterLoop ==
    /\ pc = "pss_loop"
    /\ i > Len(hs_df_less_davenport)
    /\ IF ret_row = <<>>
       THEN pc' = "aborted" /\ UNCHANGED pss_matches
       ELSE pc' = "cell6" /\ pss_matches' = Append(pss_matches, ret_row[1])
    /\ UNCHANGED <<inputs, calls, cache, ucb_cross, hs_df_less_davenport, ret_row, pss_cross,
                   hs_df_less_davenport_pss, ccd_matches, ccd_cross,
                   hs_df_outstanding, mturk_cross, i>>

\* cell 6: fold of the source-A results
PssFold ==
    /\ pc = "cell6"
    /\ pss_cross' = DropDuplicates(MergeOnCeeb(hs_df_less_davenport, DropNa(pss_matches)))
    /\ ucb_cross' = DropDuplicates(ucb_cross \o pss_cross')
    /\ hs_df_less_davenport_pss' = Outstanding(hs_df, ucb_cross')
    /\ pc' = "ccd_loop"
    /\ i' = 1
    /\ UNCHANGED <<inputs, calls, cache, hs_df_less_davenport, pss_matches, ret_row, ccd_matches,
                   ccd_cross, hs_df_outstanding, mturk_cross>>

\* cells 5 and 6 as a function of the pool: the loop over the pool in the given
\* order (matches: the list built by the passes, last: the ret_row bound at
\* the end, <<>> while unbound), then the merge of cell 6
RECURSIVE pss_loop(_)
pss_loop(pool) ==
    IF pool = <<>> THEN [matches |-> <<>>, last |-> <<>>]
    ELSE LET prev   == pss_loop(SubSeq(pool, 1, Len(pool) - 1))
             row    == pool[Len(pool)]
             block  == zip_match(pss_df, row.HS_POSTAL_CD)
             cnames == [k \in 1..Len(block) |-> block[k].PINST]
             ids    == [k \in 1..Len(block) |-> block[k].PPIN]
         IN  IF block = <<>>
             THEN [matches |-> prev.matches, last |-> <<Unmatched(row)>>]
             ELSE LET r == BestMatch(row, ids, cnames)
                  IN  [matches |-> IF r.HS_NCES # NaN THEN Append(prev.matches, r)
                                   ELSE prev.matches,
                       last    |-> <<r>>]

pss_stage(pool) ==
    LET l == pss_loop(pool)
    IN  DropDuplicates(MergeOnCeeb(pool, DropNa(Append(l.matches, l.last[1]))))

\* ui_row_match(row) on the candidates the lookup returned
ui_row_match(row, cands) ==
    IF cands = <<>> THEN Unmatched(row)
    ELSE BestMatch(row, [k \in 1..Len(cands) |-> cands[k].ncessch],
                        [k \in 1..Len(cands) |-> cands[k].school_name])

\* cell 8, one pass of the loop body for record i (the branch without a
\* pre-saved file). On every DumpEvery-th pass, the first included, the list
\* built so far is dumped to ccd_matches_inprog.p before the record is looked
\* up. The remote lookup succeeds or raises; an exception in ui_row_match is
\* swallowed and nothing is appended for the record.
CcdIter ==
    /\ pc = "ccd_loop"
    /\ i <= Len(hs_df_less_davenport_pss)
    /\ ccd_matches_inprog' =
           IF (i - 1) % DumpEvery = 0 THEN ccd_matches ELSE ccd_matches_inprog
    /\ lookups' = Append(lookups, hs_df_less_davenport_pss[i])
    /\ UNCHANGED restarts
    /\ \E lookup_ok \in BOOLEAN :
          LET row   == hs_df_less_davenport_pss[i]
              cands == ccd_directory_zip_lookup(CcdDirectory, row.HS_POSTAL_CD)
              cnames == [k \in 1..Len(cands) |-> cands[k].school_name]
          IN  ccd_matches' =
                  IF lookup_ok /\ ~ScoringRaises(row.HS_NAME, cnames)
                  THEN Append(ccd_matches, ui_row_match(row, cands))
                  ELSE ccd_matches
    /\ i' = i + 1
    /\ UNCHANGED <<inputs, calls, ucb_cross, hs_df_less_davenport, pss_matches, ret_row,
                   pss_cross, hs_df_less_davenport_pss, ccd_cross, hs_df_outstanding,
                   mturk_cross, pc>>

\* cell 8 interrupted after its first pass and before ccd_match_df.csv is
\* written, then run again: the cell has no pre-saved result file to read,
\* rebinds ccd_matches = [] and iterates from the first record;
\* ccd_matches_inprog.p stays on disk and is not read.
Restart ==
    /\ pc = "ccd_loop"
    /\ i > 1
    /\ restarts < MaxRestarts
    /\ restarts' = restarts + 1
    /\ ccd_matches' = <<>>
    /\ i' = 1
    /\ UNCHANGED <<inputs, calls, ccd_matches_inprog, lookups, ucb_cross,
                   hs_df_less_davenport, pss_matches, ret_row, pss_cross,
                   hs_df_less_davenport_pss, ccd_cross, hs_df_outstanding,
                   mturk_cross, pc>>

\* cell 8, after the loop: ccd_match_df = pd.DataFrame(ccd_matches)
CcdAfterLoop ==
    /\ pc = "ccd_loop"
    /\ i > Len(hs_df_less_davenport_pss)
    /\ pc' = "cell9"
    /\ UNCHANGED <<inputs, calls, cache, ucb_cross, hs_df_less_davenport, pss_matches, ret_row,
                   pss_cross, hs_df_less_davenport_pss, ccd_matches, ccd_cross,
                   hs_df_outstanding, mturk_cross, i>>

\* cell 9: fold of the source-B results. A frame built from an empty list has
\* no columns and the column selection raises KeyError.
CcdFold ==
    /\ pc = "cell9"
    /\ IF ccd_matches = <<>>
       THEN pc' = "aborted" /\ UNCHANGED <<ccd_cross, ucb_cross, hs_df_outstanding>>
       ELSE /\ ccd_cross' = DropDuplicates(
                               MergeOnCeeb(hs_df_less_davenport_pss, DropNa(ccd_matches)))
            /\ ucb_cross' = DropDuplicates(ucb_cross \o ccd_cross')
            /\ hs_df_outstanding' = Outstanding(hs_df, ucb_cross')
            /\ pc' = "cell10"
    /\ UNCHANGED <<inputs, calls, cache, hs_df_less_davenport, pss_matches, ret_row, pss_cross,
                   hs_df_less_davenport_pss, ccd_matches, mturk_cross, i>>

\* cell 10: MATCH_SOURCE, MATCH_SCORE (recomputed for every row) and HS_DUPED
QualityCheck ==
    /\ pc = "cell10"
    /\ LET davenport_ceebs == CeebSet(davenport_cross)
           pss_ceebs == CeebSet(pss_cross)
           ccd_ceebs == CeebSet(ccd_cross)
           dupes == ceeb_dupes(ucb_cross)
       IN  ucb_cross' =
              [k \in 1..Len(ucb_cross) |->
                  [ucb_cross[k] EXCEPT
                      !.MATCH_SOURCE = src_check(ucb_cross[k].HS_CEEB, davenport_ceebs,
                                                 pss_ceebs, ccd_ceebs),
                      !.MATCH_SCORE = name_check_score(ucb_cross[k].HS_NAME,
                                                       ucb_cross[k].MATCH_NAME),
                      !.HS_DUPED = IF ucb_cross[k].HS_CEEB \in dupes
                                   THEN "true" ELSE "false"]]
    /\ pc' = "cell11"
    /\ UNCHANGED <<inputs, calls, cache, hs_df_less_davenport, pss_matches, ret_row, pss_cross,
                   hs_df_less_davenport_pss, ccd_matches, ccd_cross,
                   hs_df_outstanding, mturk_cross, i>>

\* variant: the filter does not look at the source of a row
dropsAnySource(r) == r.MATCH_SCORE # NoScore /\ r.MATCH_SCORE < match_cutoff

\* drops = (MATCH_SCORE < match_cutoff) & (MATCH_SOURCE != 0); NaN < 70 is False
drops(r) == r.MATCH_SCORE # NoScore /\ r.MATCH_SCORE < match_cutoff /\ r.MATCH_SOURCE # 0

\* cell 11: the score filter
ScoreFilter ==
    /\ pc = "cell11"
    /\ ucb_cross' = SelectSeq(ucb_cross, LAMBDA r : ~drops(r))
    /\ pc' = "cell12"
    /\ UNCHANGED <<inputs, calls, cache, hs_df_less_davenport, pss_matches, ret_row, pss_cross,
                   hs_df_less_davenport_pss, ccd_matches, ccd_cross,
                   hs_df_outstanding, mturk_cross, i>>

\* cell 12: name overwrite for base rows, one row per (HS_CEEB, HS_NCES)
Dedup ==
    /\ pc = "cell12"
    /\ ucb_cross' = DropDuplicatesCeebNces(
          [k \in 1..Len(ucb_cross) |->
              IF ucb_cross[k].MATCH_SOURCE = 0
              THEN [ucb_cross[k] EXCEPT !.HS_NAME = ucb_cross[k].MATCH_NAME]
              ELSE ucb_cross[k]])
    /\ pc' = "cell13"
    /\ UNCHANGED <<inputs, calls, cache, hs_df_less_davenport, pss_matches, ret_row, pss_cross,
                   hs_df_less_davenport_pss, ccd_matches, ccd_cross,
                   hs_df_outstanding, mturk_cross, i>>

\* cell 13: the consensus answer of every CEEB that has responses
MturkAggregate ==
    /\ pc = "cell13"
    /\ mturk_cross' = mturk_crosswalk(resps_full(results))
    /\ pc' = "cell14"
    /\ UNCHANGED <<inputs, calls, cache, ucb_cross, hs_df_less_davenport, pss_matches, ret_row,
                   pss_cross, hs_df_less_davenport_pss, ccd_matches, ccd_cross,
                   hs_df_outstanding, i>>

\* variant: the "NA" consensus rows are not dropped
positiveKeepAll(answers) == answers

\* mturk_cross.replace('NA', np.nan).dropna(subset=['HS_NCES'])
positive(answers) == SelectSeq(answers, LAMBDA m : m.HS_NCES # NA /\ m.HS_NCES # NaN)

\* cell 14: fold of the crowd consensus
MturkFold ==
    /\ pc = "cell14"
    /\ mturk_cross' = DropDuplicates(MergeCrowd(hs_df_outstanding, positive(mturk_cross)))
    /\ ucb_cross' = DropDuplicates(ucb_cross \o mturk_cross')
    /\ hs_df_outstanding' = Outstanding(hs_df, ucb_cross')
    /\ pc' = "done"
    /\ UNCHANGED <<inputs, calls, cache, hs_df_less_davenport, pss_matches, ret_row, pss_cross,
                   hs_df_less_davenport_pss, ccd_matches, ccd_cross, i>>

Next ==
    \/ BaseMerge
    \/ PostalTruncate
    \/ PssIter
    \/ PssAfterLoop
    \/ PssFold
    \/ CcdIter
    \/ CcdAfterLoop
    \/ CcdFold
    \/ QualityCheck
    \/ ScoreFilter
    \/ Dedup
    \/ MturkAggregate
    \/ MturkFold

Spec == Init /\ [][Next]_vars

\* the pipeline with cell 8 open to interruption and a fresh run
ResumeNext ==
    \/ Next
    \/ Restart

ResumeSpec == Init /\ [][ResumeNext]_vars


(***************************************************************************)
(* The functions of the notebook called on their own: name_clean,          *)
(* hs_name_match_score and resp_clean on arguments drawn from bounded sets  *)
(***************************************************************************)
MaxPieces == 3      \* most fragments in an argument string

MaxCount == 3       \* most records a paged response reports

\* the remote service: a listing of the records 1..count, served in pages of
\* size records; the url of a page is its number and the next link of the
\* last page is null (0)
urlopen(server, url) ==
    LET first == (url - 1) * server.size + 1
        last  == IF url * server.size < server.count THEN url * server.size
                 ELSE server.count
    IN  [count   |-> server.count,
         results |-> [k \in 1..(last - first + 1) |-> first + k - 1],
         next    |-> IF url * server.size < server.count THEN url + 1 ELSE 0]

\* the while loop of url_get: the page read from nextURL is bound to reponse,
\* and response stays the first page
RECURSIVE url_get_loop(_, _, _, _)
url_get_loop(server, data, count, response) ==
    IF Len(data) < count
    THEN LET nextURL == response.next
             reponse == urlopen(server, nextURL)
         IN  url_get_loop(server, data \o response.results, count, response)
    ELSE data

url_get(server, url) ==
    LET response == urlopen(server, url)
    IN  url_get_loop(server, response.results, response.count, response)

\* the strings made of at most n fragments of F
RECURSIVE Pieces(_, _)
Pieces(F, n) ==
    IF n = 0 THEN {<<>>}
    ELSE LET shorter == Pieces(F, n - 1)
         IN  shorter \cup {pr[1] \o pr[2] : pr \in shorter \X F}

NameFragments ==
    { <<"s","c","h">>, <<"o","o","l">>, <<"S","c","h","o","o","l">>,
      <<"h","i","g","h"," ">>, <<"a","c","a">>, <<"d","e","m","y">>,
      <<"A","c","a","d","e","m","y">>, <<" ">>, <<"x">> }

AnswerFragments ==
    { MarkerTok, <<"1","2">>, <<"9">>, <<" ">>, <<"\t">>, <<"G","r","a","d","e">> }

\* the frames of the pipeline, which a call on its own leaves alone
frames == <<inputs, ucb_cross, hs_df_less_davenport, pss_matches, ret_row, pss_cross,
            hs_df_less_davenport_pss, ccd_matches, ccd_cross, hs_df_outstanding,
            mturk_cross, i, cache>>

CallInit ==
    /\ hs_df = <<>> /\ davenport_cross = <<>> /\ pss_df = <<>> /\ results = <<>>
    /\ ucb_cross = <<>> /\ hs_df_less_davenport = <<>> /\ pss_matches = <<>>
    /\ ret_row = <<>> /\ pss_cross = <<>> /\ hs_df_less_davenport_pss = <<>>
    /\ ccd_matches = <<>> /\ ccd_cross = <<>> /\ hs_df_outstanding = <<>>
    /\ mturk_cross = <<>> /\ i = 1
    /\ ccd_matches_inprog = <<>> /\ lookups = <<>> /\ restarts = 0
    /\ ret = <<>>
    /\ \/ pc = "name_clean" /\ args \in {<<x>> : x \in Pieces(NameFragments, MaxPieces)}
       \/ pc = "hs_name_match_score"
             /\ args \in (AllNames \ {NaN}) \X (AllNames \ {NaN})
       \/ pc = "resp_clean"
             /\ args \in {<<x>> : x \in Pieces(AnswerFragments, MaxPieces)}
       \/ pc = "url_get"
             /\ args \in {<<[count |-> n, size |-> sz]>> :
                              n \in 0..MaxCount, sz \in 1..MaxCount}

\* name_clean(x)
CallNameClean ==
    /\ pc = "name_clean" /\ ret = <<>>
    /\ ret' = <<name_clean(args[1])>>
    /\ UNCHANGED <<frames, pc, args>>

\* name_clean(name_clean(x))
CallNameCleanAgain ==
    /\ pc = "name_clean" /\ Len(ret) = 1
    /\ ret' = Append(ret, name_clean(ret[1]))
    /\ UNCHANGED <<frames, pc, args>>

\* hs_name_match_score(a, b)
CallScore ==
    /\ pc = "hs_name_match_score" /\ ret = <<>>
    /\ ret' = <<hs_name_match_score(args[1], args[2])>>
    /\ UNCHANGED <<frames, pc, args>>

\* hs_name_match_score(b, a)
CallScoreSwapped ==
    /\ pc = "hs_name_match_score" /\ Len(ret) = 1
    /\ ret' = Append(ret, hs_name_match_score(args[2], args[1]))
    /\ UNCHANGED <<frames, pc, args>>

\* resp_clean(x)
CallRespClean ==
    /\ pc = "resp_clean" /\ ret = <<>>
    /\ ret' = <<resp_clean(args[1])>>
    /\ UNCHANGED <<frames, pc, args>>

\* url_get(url) on the first page of a listing
CallUrlGet ==
    /\ pc = "url_get" /\ ret = <<>>
    /\ ret' = <<url_get(args[1], 1)>>
    /\ UNCHANGED <<frames, pc, args>>

CallNext ==
    \/ CallUrlGet
    \/ CallNameClean
    \/ CallNameCleanAgain
    \/ CallScore
    \/ CallScoreSwapped
    \/ CallRespClean

CallSpec == CallInit /\ [][CallNext]_vars


(***************************************************************************)
(* Properties                                                              *)
(***************************************************************************)
IdxSet(pool) == {h.idx : h \in Range(pool)}

\* the results of a list that belong to a record of a pool
ResultsOf(matches, h) ==
    {k \in 1..Len(matches) :
        matches[k].HS_CEEB = h.HS_CEEB /\ matches[k].HS_NAME = h.HS_NAME}

OnePerRecord(matches, pool) ==
    /\ Len(matches) = Len(pool)
    /\ \A k \in 1..Len(pool) : Cardinality(ResultsOf(matches, pool[k])) = 1

\* C1 (coverage): when a fuzzy stage has run over its pool (source A: cell 5
\* has ended; source B: the loop of cell 8 has ended), its result list holds
\* exactly one result per record of the pool, so as many results as records.
C1_Coverage ==
    /\ pc = "cell6" => OnePerRecord(pss_matches, hs_df_less_davenport)
    /\ pc = "cell9" => OnePerRecord(ccd_matches, hs_df_less_davenport_pss)

\* the best score of a record against a list of candidate names (strings)
BestScore(hname, cnames) ==
    MaxOf({hs_name_match_score(cnames[k], hname) : k \in 1..Len(cnames)})

PssNames(zip) ==
    LET block == zip_match(pss_df, zip)
    IN  [k \in 1..Len(block) |-> block[k].PINST]

CcdNames(zip) ==
    LET cands == ccd_directory_zip_lookup(CcdDirectory, zip)
    IN  [k \in 1..Len(cands) |-> cands[k].school_name]

\* a result is a match with a score above the cutoff, or has all three absent
Thresholded(r, cnames) ==
    IF r.HS_NCES # NaN
    THEN /\ cnames # <<>>
         /\ r.MATCH_SCORE = BestScore(r.HS_NAME, cnames)
         /\ r.MATCH_SCORE > 70
    ELSE r.MATCH_NAME = NaN /\ r.MATCH_SCORE = NoScore

\* C2 (threshold): a result of a fuzzy stage carries an identifier-B only when the
\* best score of its record's block is strictly above 70; the ret_row of a
\* record whose best score is 70 or less has identifier-B, matched name and
\* score absent. (The source-A pool holds each CEEB with one postal prefix per
\* name, so a result finds its record by CEEB and name.)
C2_Threshold ==
    /\ \A r \in Range(pss_matches) \cup Range(ret_row) :
          \A h \in Range(hs_df_less_davenport) :
              (h.HS_CEEB = r.HS_CEEB /\ h.HS_NAME = r.HS_NAME)
                  => /\ Thresholded(r, PssNames(h.HS_POSTAL_CD))
                     /\ (PssNames(h.HS_POSTAL_CD) # <<>>
                         /\ BestScore(h.HS_NAME, PssNames(h.HS_POSTAL_CD)) <= 70)
                            => r.HS_NCES = NaN
    /\ \A r \in Range(ccd_matches) :
          \A h \in Range(hs_df_less_davenport_pss) :
              (h.HS_CEEB = r.HS_CEEB /\ h.HS_NAME = r.HS_NAME)
                  => /\ Thresholded(r, CcdNames(h.HS_POSTAL_CD))
                     /\ (CcdNames(h.HS_POSTAL_CD) # <<>>
                         /\ BestScore(h.HS_NAME, CcdNames(h.HS_POSTAL_CD)) <= 70)
                            => r.HS_NCES = NaN

\* C2 witness: source A has just processed a record whose best score is exactly
\* 70 and built an UNMATCHED ret_row, and holds an accepted match of another
C2_Witness ==
    /\ pc = "pss_loop" /\ i > 1
    /\ LET h == hs_df_less_davenport[i - 1]
       IN  /\ h.HS_NAME # NaN
           /\ PssNames(h.HS_POSTAL_CD) # <<>>
           /\ BestScore(h.HS_NAME, PssNames(h.HS_POSTAL_CD)) = 70
           /\ ret_row[1].HS_CEEB = h.HS_CEEB /\ ret_row[1].HS_NCES = NaN
    /\ \E r \in Range(pss_matches) : r.HS_NCES # NaN


\* the number of approved responses for a CEEB, and of those that cleaned to v
VotesFor(ceeb) == Cardinality({r \in Range(results) : r.HS_CEEB = ceeb})
VotesForValue(ceeb, v) ==
    Cardinality({r \in Range(results) : r.HS_CEEB = ceeb /\ resp_clean(r.Answer) = v})

\* C3 (consensus majority): after the aggregation, the consensus of every CEEB
\* is the value that holds strictly more than half of all the approved votes
\* of the CEEB when there is one, and "NA" otherwise, for any number of votes
\* and any order of the responses.
C3_ConsensusMajority ==
    pc = "cell14" =>
        \A m \in Range(mturk_cross) :
            LET maj == {v \in {resp_clean(r.Answer) : r \in Range(results)} :
                           2 * VotesForValue(m.HS_CEEB, v) > VotesFor(m.HS_CEEB)}
            IN  IF maj = {} THEN m.HS_NCES = NA ELSE m.HS_NCES \in maj

RowsOf(ceeb) == {k \in 1..Len(ucb_cross) : ucb_cross[k].HS_CEEB = ceeb}

\* C4 (dedup closure): after the deduplication pass (cell 12), every CEEB of
\* the crosswalk has exactly one row, or all its rows are flagged HS_DUPED.
C4_DedupClosure ==
    pc = "cell13" =>
        \A c \in CeebSet(ucb_cross) :
            \/ Cardinality(RowsOf(c)) = 1
            \/ \A k \in RowsOf(c) : ucb_cross[k].HS_DUPED = "true"

\* C5 (unique pairs): in the final crosswalk, after the crowd fold, no two rows
\* have the same (HS_CEEB, HS_NCES) pair.
C5_UniquePairs ==
    pc = "done" =>
        \A j, k \in 1..Len(ucb_cross) :
            (ucb_cross[j].HS_CEEB = ucb_cross[k].HS_CEEB
             /\ ucb_cross[j].HS_NCES = ucb_cross[k].HS_NCES) => j = k

\* C6 (failure isolation): a pass of a fuzzy stage's loop over one record never
\* ends the stage: whatever happens for the record, the loop goes on to the
\* next record.
C6_FailureIsolation ==
    [][((pc = "pss_loop" /\ i <= Len(hs_df_less_davenport))
        \/ (pc = "ccd_loop" /\ i <= Len(hs_df_less_davenport_pss)))
          => (pc' = pc /\ i' = i + 1)]_vars

\* C7 (provenance): once the source tags are set (cell 10), a row tagged 0 has
\* its CEEB among the rows of the filtered base table, a row tagged 1 was
\* folded in from source A, a row tagged 2 from source B.
C7_Provenance ==
    pc \in {"cell11", "cell12", "cell13", "cell14"} =>
        \A r \in Range(ucb_cross) :
            /\ r.MATCH_SOURCE = 0 => r.HS_CEEB \in CeebSet(base_filter(davenport_cross))
            /\ r.MATCH_SOURCE = 1 => r.HS_CEEB \in CeebSet(pss_cross)
            /\ r.MATCH_SOURCE = 2 => r.HS_CEEB \in CeebSet(ccd_cross)

\* source A accepted a match for this very record (same CEEB and name)
MatchedByA(h) ==
    \E r \in Range(pss_matches) :
        r.HS_CEEB = h.HS_CEEB /\ r.HS_NAME = h.HS_NAME /\ r.HS_NCES # NaN

\* source A accepted a match for some record with this record's CEEB
CeebMatchedByA(h) ==
    \E r \in Range(pss_matches) : r.HS_CEEB = h.HS_CEEB /\ r.HS_NCES # NaN

BaseInput ==
    {h.idx : h \in {g \in Range(hs_df) :
        g.HS_CEEB \notin CeebSet(base_filter(davenport_cross))}}

\* C8 as claimed (chainability by record): source A is given exactly the
\* records the base table did not match, and source B exactly the records
\* that source A left UNMATCHED.
C8_Chainability ==
    /\ pc = "pss_loop" => IdxSet(hs_df_less_davenport) = BaseInput
    /\ pc = "ccd_loop" =>
          IdxSet(hs_df_less_davenport_pss) =
              {h.idx : h \in {g \in Range(hs_df_less_davenport) : ~MatchedByA(g)}}

\* C8 amended (chainability by CEEB): source A is given exactly the records
\* whose CEEB the base table did not match, and source B exactly the records
\* of source A's input for whose CEEB source A accepted no match; the pools
\* keep the order of hs_df.
C8_ChainabilityByCeeb ==
    /\ pc = "pss_loop" => IdxSet(hs_df_less_davenport) = BaseInput
    /\ pc = "ccd_loop" =>
          /\ IdxSet(hs_df_less_davenport_pss) =
                {h.idx : h \in {g \in Range(hs_df_less_davenport) : ~CeebMatchedByA(g)}}
          /\ \A j, k \in 1..Len(hs_df_less_davenport_pss) :
                j < k => hs_df_less_davenport_pss[j].idx < hs_df_less_davenport_pss[k].idx

\* C8 witness: two records share a CEEB, source A matched one and left the
\* other UNMATCHED, and the other is not in source B's input
C8_Witness ==
    /\ pc = "ccd_loop"
    /\ \E h1, h2 \in Range(hs_df_less_davenport) :
          /\ h1.HS_CEEB = h2.HS_CEEB
          /\ MatchedByA(h1) /\ ~MatchedByA(h2)
          /\ h2.idx \notin IdxSet(hs_df_less_davenport_pss)
    /\ hs_df_less_davenport_pss # <<>>

\* the records of hs_df whose CEEB is in no row of the crosswalk
NotInCrosswalk ==
    SelectSeq(hs_df, LAMBDA h : \A k \in 1..Len(ucb_cross) : ucb_cross[k].HS_CEEB # h.HS_CEEB)

\* C9 (pool after a fold): right after each fold (base, source A, source B,
\* crowd) the pool that the fold computed is exactly the records of hs_df whose
\* CEEB is in no row of the running table.
C9_PoolAfterFold ==
    /\ pc = "cell4" => hs_df_less_davenport = NotInCrosswalk
    /\ pc = "ccd_loop" => hs_df_less_davenport_pss = NotInCrosswalk
    /\ pc = "cell10" => hs_df_outstanding = NotInCrosswalk
    /\ pc = "done" => hs_df_outstanding = NotInCrosswalk

\* C9 witness: the crowd fold added a row and left a record in the pool
C9_Witness ==
    /\ pc = "done"
    /\ mturk_cross # <<>>
    /\ hs_df_outstanding # <<>>
    /\ Len(hs_df_outstanding) < Len(hs_df)

\* C10 (shrinking pool): every pool is a subset of the pool computed before
\* it: source A's result pool of the base pool, source B's of source A's, and
\* the pool computed after the crowd fold of the pool computed after source B.
C10_PoolShrinks ==
    /\ [](pc = "ccd_loop" => IdxSet(hs_df_less_davenport_pss) \subseteq IdxSet(hs_df_less_davenport))
    /\ [](pc = "cell10" => IdxSet(hs_df_outstanding) \subseteq IdxSet(hs_df_less_davenport_pss))
    /\ [][pc = "cell14" => IdxSet(hs_df_outstanding') \subseteq IdxSet(hs_df_outstanding)]_vars

\* a row whose score is present and below the cutoff
BelowCutoff(r) == r.MATCH_SCORE # NoScore /\ r.MATCH_SCORE < 70

\* C11 (score filter): the score filter (cell 11) removes exactly the rows whose
\* score is below 70 and whose source is not 0 (base); every row tagged 0 and
\* every row whose score is absent or not below 70 stays, unchanged and in order.
C11_ScoreFilter ==
    [][pc = "cell11" =>
        ucb_cross' = SelectSeq(ucb_cross,
                        LAMBDA r : ~(BelowCutoff(r) /\ r.MATCH_SOURCE # 0))]_vars

\* C11 witness: after the filter the table holds a base row with a score below
\* 70 and a row without a score, and a row folded in from source A is gone
C11_Witness ==
    /\ pc = "cell12"
    /\ \E r \in Range(ucb_cross) : r.MATCH_SOURCE = 0 /\ BelowCutoff(r)
    /\ \E r \in Range(ucb_cross) : r.MATCH_SCORE = NoScore
    /\ \E r \in Range(pss_cross) : r.HS_CEEB \notin CeebSet(ucb_cross)

\* a row of the table that a fuzzy stage produced: it is a row of pss_cross or
\* of ccd_cross (same CEEB, NCES and matched name; cell 12 may have overwritten
\* the record name)
FromFuzzyStage(r) ==
    \E q \in Range(pss_cross) \cup Range(ccd_cross) :
        /\ q.HS_CEEB = r.HS_CEEB /\ q.HS_NCES = r.HS_NCES
        /\ q.MATCH_NAME = r.MATCH_NAME

\* C12 (stored score): in the final crosswalk every row that a fuzzy stage
\* (source A or source B) produced has a stored MATCH_SCORE strictly above 70.
C12_StoredScore ==
    pc = "done" =>
        \A r \in Range(ucb_cross) : FromFuzzyStage(r) => r.MATCH_SCORE > 70

\* a record that the base table does not hold and that has no candidate in any
\* block of source A or source B, under its postal code or the 5-character prefix
NoCandidates(h) ==
    /\ h.HS_CEEB \notin CeebSet(base_filter(davenport_cross))
    /\ PssNames(h.HS_POSTAL_CD) = <<>> /\ PssNames(PostalPrefix(h.HS_POSTAL_CD)) = <<>>
    /\ CcdNames(h.HS_POSTAL_CD) = <<>> /\ CcdNames(PostalPrefix(h.HS_POSTAL_CD)) = <<>>

\* the values other than "NA" that hold a strict majority of a CEEB's votes
MajorityValues(ceeb) ==
    {v \in {resp_clean(r.Answer) : r \in Range(results)} \ {NA} :
        2 * VotesForValue(ceeb, v) > VotesFor(ceeb)}

\* the row's MATCH_SOURCE is a tag, and not the tag of another stage
\* (0 base, 1 source A, 2 source B, -1 not found)
TaggedCrowd(r) == r.MATCH_SOURCE \notin {NoSource, 0, 1, 2, 0 - 1}

\* C13 (crowd path): at the end of the run, a record that is absent from the
\* base table, has no candidates in source A or source B, and whose approved
\* responses have a strict-majority value v other than "NA", has a row in the
\* crosswalk with identifier-B v whose match source names the crowd stage.
C13_CrowdPath ==
    pc = "done" =>
        \A h \in Range(hs_df) : \A v \in MajorityValues(h.HS_CEEB) :
            NoCandidates(h) =>
                \E r \in Range(ucb_cross) :
                    r.HS_CEEB = h.HS_CEEB /\ r.HS_NCES = v /\ TaggedCrowd(r)

\* C14 (NA fold): the crowd fold (cell 14) adds a row only for a consensus that
\* is not "NA": every added row carries the non-"NA" consensus of its CEEB, and
\* for a CEEB whose consensus is "NA" no row is added, the table keeps the rows
\* it had for the CEEB, and its records in the outstanding pool stay there.
C14_NaFold ==
    [][pc = "cell14" =>
        /\ \A r \in Range(mturk_cross') :
              \E m \in Range(mturk_cross) :
                  m.HS_CEEB = r.HS_CEEB /\ m.HS_NCES = r.HS_NCES /\ m.HS_NCES # NA
        /\ \A m \in Range(mturk_cross) :
              m.HS_NCES = NA =>
                 /\ m.HS_CEEB \notin CeebSet(mturk_cross')
                 /\ {r \in Range(ucb_cross') : r.HS_CEEB = m.HS_CEEB}
                        = {r \in Range(ucb_cross) : r.HS_CEEB = m.HS_CEEB}
                 /\ \A h \in Range(hs_df_outstanding) :
                        h.HS_CEEB = m.HS_CEEB => h \in Range(hs_df_outstanding')]_vars

\* C14 witness: the run has ended, the crowd fold added a row, and a record
\* whose CEEB has the consensus "NA" is in the outstanding pool
C14_Witness ==
    /\ pc = "done"
    /\ mturk_cross # <<>>
    /\ \E m \in Range(mturk_crosswalk(resps_full(results))) :
          m.HS_NCES = NA /\ m.HS_CEEB \in CeebSet(hs_df_outstanding)

\* a blank, a tab or a line break
IsWhitespace(c) == c \in {" ", "\t", "\n"}

\* C15 (answer cleaning): resp_clean(x) is the text that follows the marker
\* "NCES School ID: " when x holds the marker; else "NA" when x holds
\* whitespace or the word "grade" in any letter case; else x unchanged.
C15_RespClean ==
    (pc = "resp_clean" /\ ret # <<>>) =>
        LET x == args[1]
        IN  IF Contains(x, MarkerTok)
            THEN \E k \in 1..Len(x) :
                    /\ SubSeq(x, k, k + Len(MarkerTok) - 1) = MarkerTok
                    /\ ret[1] = SubSeq(x, k + Len(MarkerTok), Len(x))
            ELSE IF (\E k \in 1..Len(x) : IsWhitespace(x[k])) \/ Contains(Lower(x), GradeTok)
                 THEN ret[1] = NA
                 ELSE ret[1] = x

\* C16 (idempotence): name_clean(name_clean(x)) = name_clean(x) for every string x.
C16_Idempotent ==
    (pc = "name_clean" /\ Len(ret) = 2) => ret[2] = ret[1]

\* C17 (normal form): name_clean(x) is lower-case, has no blank at either end,
\* and holds none of "high school", "school", "academy"; "high school" goes
\* before "school", so a name that is just "high school" cleans to the empty string.
C17_NormalForm ==
    (pc = "name_clean" /\ ret # <<>>) =>
        /\ ret[1] = Lower(ret[1])
        /\ ret[1] = Strip(ret[1])
        /\ ~Contains(ret[1], HighSchoolTok)
        /\ ~Contains(ret[1], SchoolTok)
        /\ ~Contains(ret[1], AcademyTok)
        /\ Lower(args[1]) = HighSchoolTok => ret[1] = <<>>

\* C18 (symmetry): hs_name_match_score(a, b) = hs_name_match_score(b, a), and
\* the score is an integer in 0..100.
C18_Symmetric ==
    pc = "hs_name_match_score" =>
        /\ \A k \in 1..Len(ret) : ret[k] \in 0..100
        /\ Len(ret) = 2 => ret[1] = ret[2]

\* the candidates of source A whose mailing or location postal code is the key
Block(key) == {c \in Range(pss_df) : c.PZIP = key \/ c.PL_ZIP = key}

\* C19 (blocking): in a pass of the source-A loop over a record with postal key
\* k, the block is exactly the candidates whose mailing or location code is k:
\* with no such candidate the pass raises nothing and builds an UNMATCHED
\* result; an accepted match is a candidate of the block that scores at least
\* as high as every candidate of the block; and a record left UNMATCHED has no
\* candidate in the block that scores above 70.
C19_Blocking ==
    [][(pc = "pss_loop" /\ i <= Len(hs_df_less_davenport)) =>
        LET row == hs_df_less_davenport[i]
            B   == Block(row.HS_POSTAL_CD)
        IN  /\ B = {} => (pc' = pc /\ i' = i + 1 /\ ret_row' = <<Unmatched(row)>>)
            /\ (pc' = pc /\ ret_row'[1].HS_NCES # NaN) =>
                  \E c \in B :
                      /\ ret_row'[1].HS_NCES = c.PPIN
                      /\ ret_row'[1].MATCH_NAME = c.PINST
                      /\ \A d \in B : hs_name_match_score(d.PINST, row.HS_NAME)
                                          <= hs_name_match_score(c.PINST, row.HS_NAME)
            /\ (pc' = pc /\ ret_row'[1].HS_NCES = NaN) =>
                  \A d \in B : hs_name_match_score(d.PINST, row.HS_NAME) <= 70]_vars

\* C19 witness: source A has just left a record with an empty block UNMATCHED,
\* and holds a match with a candidate found by its location code only
C19_Witness ==
    /\ pc = "pss_loop" /\ i > 1
    /\ Block(hs_df_less_davenport[i - 1].HS_POSTAL_CD) = {}
    /\ ret_row = <<Unmatched(hs_df_less_davenport[i - 1])>>
    /\ \E r \in Range(pss_matches) : \E c \in Range(pss_df) :
          c.PPIN = r.HS_NCES /\ c.PZIP # c.PL_ZIP

\* values that stand for a missing identifier: NaN, "NA", the text 'nan' that
\* str() gives for NaN, and the empty text
NoIdentifier == {NaN, NA, Str(NaN), <<>>}

\* C20 (populated identifiers): at every point of the run every row of the
\* running crosswalk has a CEEB and an NCES id that are real identifier values.
C20_Populated ==
    \A r \in Range(ucb_cross) : r.HS_CEEB # 0 /\ r.HS_NCES \notin NoIdentifier

\* C21 (name overwrite): after the deduplication pass (cell 12) every row of a
\* duplicate-flagged CEEB, from the base table or from a fuzzy source, has its
\* HS_NAME equal to its MATCH_NAME.
C21_NameOverwrite ==
    pc = "cell13" =>
        \A r \in Range(ucb_cross) : r.HS_DUPED = "true" => r.HS_NAME = r.MATCH_NAME

\* C22 (resumable source-B lookups): once cell 8 has been interrupted and run
\* again, a pass over a record whose result is in the dumped partial list
\* sends no query for it to the remote directory.
Cached(row) ==
    \E r \in Range(ccd_matches_inprog) :
        r.HS_CEEB = row.HS_CEEB /\ r.HS_NAME = row.HS_NAME

C22_Resumable ==
    [][(/\ pc = "ccd_loop"
        /\ restarts > 0
        /\ i <= Len(hs_df_less_davenport_pss)
        /\ Cached(hs_df_less_davenport_pss[i]))
       => lookups' = lookups]_vars

\* C23 (order independence): the source-A stage gives the same set of rows for
\* every order of its pool, and the rows it gives for a record are the rows it
\* gives when that record is the only one in the pool.
Perms(pool) ==
    {[k \in 1..Len(pool) |-> pool[p[k]]] :
        p \in {q \in InjSeqs(1..Len(pool), Len(pool)) : Len(q) = Len(pool)}}

StageRowsFor(h) ==
    {r \in Range(pss_cross) : r.HS_CEEB = h.HS_CEEB /\ r.HS_NAME = h.HS_NAME}

SameForEveryOrder ==
    \A q \in Perms(hs_df_less_davenport) : Range(pss_stage(q)) = Range(pss_cross)

AloneAsInPool ==
    \A h \in Range(hs_df_less_davenport) : Range(pss_stage(<<h>>)) = StageRowsFor(h)

FoldedFromPool == pss_cross = pss_stage(hs_df_less_davenport)

C23_OrderIndependence ==
    pc = "ccd_loop" => SameForEveryOrder /\ AloneAsInPool

\* C24 (tie-break): the candidate of a stored match, in the source-A and in
\* the source-B stage, reaches the highest score of its record's block and no
\* candidate before it in the block's order reaches that score.
FirstBest(r, hname, ids, cnames) ==
    \E k \in 1..Len(ids) :
        /\ ids[k] = r.HS_NCES /\ cnames[k] = r.MATCH_NAME
        /\ \A j \in 1..Len(ids) :
               hs_name_match_score(cnames[j], hname) <= hs_name_match_score(cnames[k], hname)
        /\ \A j \in 1..(k - 1) :
               hs_name_match_score(cnames[j], hname) < hs_name_match_score(cnames[k], hname)

TiedBest(r, hname, ids, cnames) ==
    \E j, k \in 1..Len(ids) :
        /\ ids[j] # ids[k] /\ ids[k] = r.HS_NCES
        /\ hs_name_match_score(cnames[j], hname) = r.MATCH_SCORE
        /\ hs_name_match_score(cnames[k], hname) = r.MATCH_SCORE

PssBlockOf(h) == zip_match(pss_df, h.HS_POSTAL_CD)

CcdBlockOf(h) == ccd_directory_zip_lookup(CcdDirectory, h.HS_POSTAL_CD)

C24_TieBreak ==
    /\ \A r \in Range(pss_matches), h \in Range(hs_df_less_davenport) :
          (r.HS_NCES # NaN /\ h.HS_CEEB = r.HS_CEEB /\ h.HS_NAME = r.HS_NAME) =>
              FirstBest(r, h.HS_NAME,
                        [k \in 1..Len(PssBlockOf(h)) |-> PssBlockOf(h)[k].PPIN],
                        [k \in 1..Len(PssBlockOf(h)) |-> PssBlockOf(h)[k].PINST])
    /\ \A r \in Range(ccd_matches), h \in Range(hs_df_less_davenport_pss) :
          (r.HS_NCES # NaN /\ h.HS_CEEB = r.HS_CEEB /\ h.HS_NAME = r.HS_NAME) =>
              FirstBest(r, h.HS_NAME,
                        [k \in 1..Len(CcdBlockOf(h)) |-> CcdBlockOf(h)[k].ncessch],
                        [k \in 1..Len(CcdBlockOf(h)) |-> CcdBlockOf(h)[k].school_name])

C24_Witness ==
    /\ \E r \in Range(pss_matches), h \in Range(hs_df_less_davenport) :
          /\ r.HS_NCES # NaN /\ h.HS_CEEB = r.HS_CEEB /\ h.HS_NAME = r.HS_NAME
          /\ TiedBest(r, h.HS_NAME,
                      [k \in 1..Len(PssBlockOf(h)) |-> PssBlockOf(h)[k].PPIN],
                      [k \in 1..Len(PssBlockOf(h)) |-> PssBlockOf(h)[k].PINST])
    /\ \E r \in Range(ccd_matches), h \in Range(hs_df_less_davenport_pss) :
          /\ r.HS_NCES # NaN /\ h.HS_CEEB = r.HS_CEEB /\ h.HS_NAME = r.HS_NAME
          /\ TiedBest(r, h.HS_NAME,
                      [k \in 1..Len(CcdBlockOf(h)) |-> CcdBlockOf(h)[k].ncessch],
                      [k \in 1..Len(CcdBlockOf(h)) |-> CcdBlockOf(h)[k].school_name])

\* C25 (blocking key): for a record of hs_df whose postal code is longer than 5
\* characters, the code the source-A loop compares with the candidates' codes
\* and the code sent to the remote directory in the source-B loop are the
\* first 5 characters of the record's postal code.
LongCode(h) == hs_df[h.idx].HS_POSTAL_CD # NaN /\ Len(hs_df[h.idx].HS_POSTAL_CD) > 5

First5(h) == SubSeq(hs_df[h.idx].HS_POSTAL_CD, 1, 5)

C25_BlockingKey ==
    /\ pc = "pss_loop" =>
          \A h \in Range(hs_df_less_davenport) : LongCode(h) => h.HS_POSTAL_CD = First5(h)
    /\ \A h \in Range(lookups) : LongCode(h) => h.HS_POSTAL_CD = First5(h)

\* C26 (pagination): url_get on a listing of N records served in pages returns
\* the records 1..N of all the pages, each once and in page order.
C26_Pagination ==
    (pc = "url_get" /\ ret # <<>>) => ret[1] = [k \in 1..args[1].count |-> k]

\* C27 (no override): the crowd fold (cell 14) adds rows only for CEEBs that
\* are in no row of the table before it, every (CEEB, NCES) pair of the table
\* before the fold is in the table after it, and afterwards every row of a
\* CEEB that has a crowd row is a crowd row.
C27_NoOverride ==
    [][pc = "cell14" =>
        /\ \A r \in Range(mturk_cross') : r.HS_CEEB \notin CeebSet(ucb_cross)
        /\ \A r \in Range(ucb_cross) :
              \E r2 \in Range(ucb_cross') :
                  r2.HS_CEEB = r.HS_CEEB /\ r2.HS_NCES = r.HS_NCES
        /\ \A r \in Range(ucb_cross') :
              r.HS_CEEB \in CeebSet(mturk_cross') => r \in Range(mturk_cross')]_vars

\* C27 witness: the run has ended, the crowd fold added a row, and the crowd
\* has a consensus other than "NA" for a CEEB that a base or fuzzy stage matched
C27_Witness ==
    /\ pc = "done"
    /\ mturk_cross # <<>>
    /\ \E m \in Range(positive(mturk_crosswalk(resps_full(results)))) :
          \E r \in Range(ucb_cross) :
              r.HS_CEEB = m.HS_CEEB /\ r.MATCH_SOURCE \in {0, 1, 2}

\* C28 (crowd fold reaches every absent record): a record of hs_df whose CEEB is
\* in no row of the table when the crowd fold (cell 14) starts, and whose CEEB
\* has a consensus other than "NA", has a row with that consensus after the fold.
C28_AbsentGetsConsensus ==
    [][pc = "cell14" =>
        \A h \in Range(hs_df) : \A m \in Range(positive(mturk_cross)) :
            (h.HS_CEEB \notin CeebSet(ucb_cross) /\ m.HS_CEEB = h.HS_CEEB) =>
                \E r \in Range(ucb_cross') :
                    /\ r.HS_CEEB = h.HS_CEEB /\ r.HS_NAME = h.HS_NAME
                    /\ r.HS_NCES = m.HS_NCES]_vars

\* C29 (missing answers): a consensus value other than "NA" (cell 13), and the
\* NCES of every row the crowd fold makes (cell 14), is the cleaned answer of a
\* response of that CEEB whose raw answer is not missing.
GivenAnswer(ceeb, v) ==
    \E a \in Range(results) :
        a.HS_CEEB = ceeb /\ a.Answer # NaN /\ resp_clean(a.Answer) = v

C29_MissingNotAVote ==
    (pc = "cell14" \/ pc = "done") =>
        \A m \in Range(mturk_cross) : m.HS_NCES # NA => GivenAnswer(m.HS_CEEB, m.HS_NCES)

\* C30 (stage precedence): a fold (source A, source B, crowd) adds rows only
\* for CEEBs that are in no row of the table before it, and every CEEB that a
\* fuzzy stage matched is in the table after the fold of that stage; so the
\* rows of a CEEB all come from one stage, the first that matched it.
C30_StagePrecedence ==
    [][/\ pc \in {"cell6", "cell9", "cell14"} =>
             \A r \in Range(ucb_cross') :
                 r \notin Range(ucb_cross) => r.HS_CEEB \notin CeebSet(ucb_cross)
       /\ pc = "cell6" =>
             \A m \in Range(pss_matches) :
                 m.HS_NCES # NaN => m.HS_CEEB \in CeebSet(ucb_cross')
       /\ (pc = "cell9" /\ pc' = "cell10") =>
             \A m \in Range(ccd_matches) :
                 m.HS_NCES # NaN => m.HS_CEEB \in CeebSet(ucb_cross')]_vars

\* C30 witness: the run has ended with rows of all four stages in the table,
\* and the remote directory has a candidate above the cutoff for a record
\* that source A matched
C30_Witness ==
    /\ pc = "done"
    /\ \E r \in Range(ucb_cross) : r.HS_CEEB \in CeebSet(base_filter(davenport_cross))
    /\ \E r \in Range(ucb_cross) : r.HS_CEEB \in CeebSet(ccd_cross)
    /\ \E r \in Range(ucb_cross) : r.HS_CEEB \in CeebSet(mturk_cross)
    /\ \E r \in Range(ucb_cross), h \in Range(hs_df) :
          /\ r.HS_CEEB \in CeebSet(pss_cross)
          /\ h.HS_CEEB = r.HS_CEEB
          /\ h.HS_NAME # NaN
          /\ \E c \in Range(CcdBlockOf(h)) :
                 hs_name_match_score(c.school_name, h.HS_NAME) > match_cutoff

=============================================================================
